---------------------------- MODULE Spec2Model ----------------------------
(***************************************************************************)
(* A model of src/src/components/tikzpreview.ts (class TikzPictureView):   *)
(* the tracking of tikzpicture fragments across edits of a live document,  *)
(* the debounce of onFileChange, the preamble cache and its asynchronous   *)
(* precompile, and the viewer-gated removal of fragments.                  *)
(*                                                                         *)
(* Text.  A document is a sequence of lines and a line a sequence of       *)
(* one-character strings.  Lines and columns are 0-based as in vscode, so  *)
(* line n of the document is doc[n + 1].  The opening marker               *)
(* \begin{tikzpicture} is the two characters BeginMarker, the closing      *)
(* marker \end{tikzpicture} the two characters EndMarker, "%" starts a     *)
(* comment and "x" is any other character.                                 *)
(*                                                                         *)
(* Scheduling.  Node runs one handler at a time and drains the microtask   *)
(* queue before the next event, timer or process exit is delivered; every  *)
(* await of view, onFileChange and checkPreamble other than the one on     *)
(* precompilePreamble is on a value that is already there.  So a handler   *)
(* is one action up to the point where it waits for the pdftex process,    *)
(* and the exit (or error) of that process is another action.              *)
(***************************************************************************)
EXTENDS Integers, Sequences, FiniteSets, TLC

(***************************************************************************)
(* Bounds of the model.                                                    *)
(***************************************************************************)
MaxClock == 5
MaxTrackClock == 2
MaxBatches == 1
MaxAsyncBatches == 2
MaxNewlines == 2
MaxPictures == 2

(***************************************************************************)
(* Program constants.                                                      *)
(***************************************************************************)
TempFileModulus == 100000000

BeginMarker == <<"B", "}">>
EndMarker == <<"E", "}">>

None == "none"

Min(a, b) == IF a < b THEN a ELSE b
Max(a, b) == IF a < b THEN b ELSE a

(***************************************************************************)
(* vscode.Position and vscode.Range.                                       *)
(***************************************************************************)
Pos(l, c) == [line |-> l, character |-> c]

isBefore(p, q) ==
    \/ p.line < q.line
    \/ p.line = q.line /\ p.character < q.character

isAfter(p, q) == isBefore(q, p)

isBeforeOrEqual(p, q) == ~isBefore(q, p)

\* new vscode.Range(a, b): the constructor orders its two ends.
Range(a, b) ==
    IF isBefore(b, a) THEN [start |-> b, end |-> a] ELSE [start |-> a, end |-> b]

\* Position.translate and the Position constructor throw on a negative
\* line or character.
translateThrows(p, lineDelta, characterDelta) ==
    p.line + lineDelta < 0 \/ p.character + characterDelta < 0

translate(p, lineDelta, characterDelta) ==
    Pos(p.line + lineDelta, p.character + characterDelta)

(***************************************************************************)
(* vscode.TextDocument: lineAt, getText, and the editor applying a change. *)
(***************************************************************************)
lineCount(doc) == Len(doc)

\* document.lineAt(n) throws when n is not a line of the document.
lineAtThrows(doc, n) == n < 0 \/ n >= lineCount(doc)

lineAt(doc, n) == doc[n + 1]

\* TextDocument.validatePosition: a position is moved into the document.
validatePosition(doc, p) ==
    IF p.line < 0 THEN Pos(0, 0)
    ELSE IF p.line >= lineCount(doc)
         THEN Pos(lineCount(doc) - 1, Len(doc[lineCount(doc)]))
         ELSE Pos(p.line, Max(0, Min(p.character, Len(doc[p.line + 1]))))

\* document.getText(range), as the sequence of the lines of the text (the text
\* split at its line breaks).
getText(doc, range) ==
    LET r == Range(validatePosition(doc, range.start), validatePosition(doc, range.end))
        s == r.start
        e == r.end
    IN  IF s.line = e.line
        THEN << SubSeq(doc[s.line + 1], s.character + 1, e.character) >>
        ELSE << SubSeq(doc[s.line + 1], s.character + 1, Len(doc[s.line + 1])) >>
             \o SubSeq(doc, s.line + 2, e.line)
             \o << SubSeq(doc[e.line + 1], 1, e.character) >>

\* The document after the editor replaced change.range by change.text (text is
\* the sequence of the lines of the replacement).
ApplyChange(doc, change) ==
    LET s == change.range.start
        e == change.range.end
        t == change.text
        head == SubSeq(doc[s.line + 1], 1, s.character)
        tail == SubSeq(doc[e.line + 1], e.character + 1, Len(doc[e.line + 1]))
        mid == IF Len(t) = 1
               THEN << head \o t[1] \o tail >>
               ELSE << head \o t[1] >> \o SubSeq(t, 2, Len(t) - 1) \o << t[Len(t)] \o tail >>
    IN  SubSeq(doc, 1, s.line) \o mid \o SubSeq(doc, e.line + 2, Len(doc))

(***************************************************************************)
(* String search.  search(line, marker) is String.prototype.search with    *)
(* the marker's pattern: the 0-based index of the first match, -1 if none. *)
(***************************************************************************)
matchesAt(line, marker, i) ==
    /\ i + Len(marker) <= Len(line)
    /\ SubSeq(line, i + 1, i + Len(marker)) = marker

search(line, marker) ==
    IF \E i \in 0..Len(line) : matchesAt(line, marker, i)
    THEN CHOOSE i \in 0..Len(line) :
            /\ matchesAt(line, marker, i)
            /\ \A j \in 0..(i - 1) : ~matchesAt(line, marker, j)
    ELSE -1

\* stripComments(text, '%') of ../utils: the text of the line up to its
\* comment sign.
stripComments(line) ==
    IF \E i \in 1..Len(line) : line[i] = "%"
    THEN SubSeq(line, 1, (CHOOSE i \in 1..Len(line) :
                            /\ line[i] = "%"
                            /\ \A j \in 1..(i - 1) : line[j] # "%") - 1)
    ELSE line


(***************************************************************************)
(* The marker searches of processModificationToTikzPicture.  Both are      *)
(*    do { m = <line ++lineNo>.match(marker) } while (!m && lineNo <= limit) *)
(* so the line after the limit is read too, and lineAt throws when the     *)
(* search leaves the document.  lineNo is the line read next; strip tells  *)
(* whether the line's comment is stripped before the match.                *)
(***************************************************************************)
RECURSIVE searchLines(_, _, _, _, _)
searchLines(doc, lineNo, limit, marker, strip) ==
    IF lineAtThrows(doc, lineNo)
    THEN [thrown |-> TRUE, found |-> FALSE, line |-> lineNo, index |-> -1]
    ELSE LET text == IF strip THEN stripComments(lineAt(doc, lineNo)) ELSE lineAt(doc, lineNo)
             idx == search(text, marker)
         IN  IF idx # -1
             THEN [thrown |-> FALSE, found |-> TRUE, line |-> lineNo, index |-> idx]
             ELSE IF lineNo <= limit
                  THEN searchLines(doc, lineNo + 1, limit, marker, strip)
                  ELSE [thrown |-> FALSE, found |-> FALSE, line |-> lineNo, index |-> -1]

NotSearched == [thrown |-> FALSE, found |-> FALSE, line |-> -1, index |-> -1]

\* The start of the fragment after a change that starts on or before its first
\* line (lines 150-173).
startLocation(doc, tikzPicture, change) ==
    IF change.range.start.line <= tikzPicture.range.start.line
    THEN IF lineAtThrows(doc, tikzPicture.range.start.line)
         THEN [thrown |-> TRUE, found |-> FALSE, line |-> -1, index |-> -1]
         ELSE LET tikzPictureStartIndex ==
                      search(stripComments(lineAt(doc, tikzPicture.range.start.line)), BeginMarker)
              IN  IF tikzPictureStartIndex # -1
                  THEN [thrown |-> FALSE, found |-> TRUE,
                        line |-> tikzPicture.range.start.line, index |-> tikzPictureStartIndex]
                  ELSE searchLines(doc, change.range.start.line, tikzPicture.range.end.line,
                                   BeginMarker, FALSE)
    ELSE NotSearched

\* The end of the fragment after a change that ends on or after its last line
\* (lines 175-188): the position just past the first closing marker.
endLocation(doc, tikzPicture, change) ==
    IF change.range.end.line >= tikzPicture.range.end.line
    THEN LET m == searchLines(doc, tikzPicture.range.start.line, change.range.end.line,
                              EndMarker, TRUE)
         IN  IF m.found THEN [m EXCEPT !.index = m.index + Len(EndMarker)] ELSE m
    ELSE NotSearched

lineDeltaOf(change) ==
    (Len(change.text) - 1) - (change.range.end.line - change.range.start.line)

\* processModificationToTikzPicture: the fragment re-anchored, or thrown.
processModificationToTikzPicture(doc, tikzPicture, change, lineDelta) ==
    LET sl == startLocation(doc, tikzPicture, change)
        el == IF sl.thrown THEN NotSearched ELSE endLocation(doc, tikzPicture, change)
        endThrows == ~el.found /\ translateThrows(tikzPicture.range.end, lineDelta, 0)
    IN  IF sl.thrown \/ el.thrown \/ endThrows
        THEN [thrown |-> TRUE, pic |-> tikzPicture]
        ELSE LET range == Range(IF sl.found THEN Pos(sl.line, sl.index)
                                            ELSE tikzPicture.range.start,
                                IF el.found THEN Pos(el.line, el.index)
                                            ELSE translate(tikzPicture.range.end, lineDelta, 0))
             IN  [thrown |-> FALSE,
                  pic |-> [tikzPicture EXCEPT !.range = range,
                                              !.content = getText(doc, range)]]


(***************************************************************************)
(* The fragment loop of onFileChange (lines 95-139).                       *)
(*                                                                         *)
(* A fragment is a record [id, range, content, tempFile, lastChange]; id   *)
(* stands for the identity of the JavaScript object.  Inside the loop the  *)
(* array tikzPictures is the sequence arr of ids and objs maps every id to *)
(* its object, so that an object spliced out of the array can still be     *)
(* written to and compiled, as in the code.  A loop state is               *)
(*   arr       the array tikzPictures                                      *)
(*   objs      the fragment objects                                        *)
(*   toUpdate  tikzPicturesToUpdate, as ids                                *)
(*   cleaned   the ids cleanupTikzPicture was called with, in call order   *)
(*   thrown    an exception left the loop                                  *)
(***************************************************************************)
indexOf(arr, id) ==
    IF \E i \in 1..Len(arr) : arr[i] = id
    THEN CHOOSE i \in 1..Len(arr) : arr[i] = id /\ \A j \in 1..(i - 1) : arr[j] # id
    ELSE 0

removeAt(arr, i) == SubSeq(arr, 1, i - 1) \o SubSeq(arr, i + 1, Len(arr))

\* tikzPictures.splice(tikzPictures.indexOf(tikzPicture), 1): indexOf gives -1
\* for an object that is not in the array, and splice(-1, 1) removes the last
\* element.
spliceOut(arr, id) ==
    IF indexOf(arr, id) # 0
    THEN removeAt(arr, indexOf(arr, id))
    ELSE IF arr = <<>> THEN arr ELSE removeAt(arr, Len(arr))

includes(seq, x) == \E i \in 1..Len(seq) : seq[i] = x

\* The viewer has a non-empty client set for the fragment's pdf (lines 100-106).
viewerActive(clients, tikzPicture) == tikzPicture.tempFile \in clients

\* changeBranch with a change taken to be after the fragment only when it
\* starts on a later line than the fragment ends.
changeBranchByLine(tikzPicture, change) ==
    LET lineDelta == lineDeltaOf(change)
    IN  IF tikzPicture.range.end.line < change.range.start.line
        THEN "after"
        ELSE IF isAfter(tikzPicture.range.start, change.range.end)
        THEN "before"
        ELSE IF /\ isAfter(change.range.end, tikzPicture.range.start)
                /\ change.range.end.line - lineDelta < tikzPicture.range.start.line
        THEN "removed"
        ELSE "modified"

\* Lines 114-137: which branch a change takes for a fragment.
changeBranch(tikzPicture, change) ==
    LET lineDelta == lineDeltaOf(change)
    IN  IF isBefore(tikzPicture.range.end, change.range.start)
        THEN "after"
        ELSE IF isAfter(tikzPicture.range.start, change.range.end)
        THEN "before"
        ELSE IF /\ isAfter(change.range.end, tikzPicture.range.start)
                /\ change.range.end.line - lineDelta < tikzPicture.range.start.line
        THEN "removed"
        ELSE "modified"

applyChange(doc, st, id, change) ==
    LET tikzPicture == st.objs[id]
        lineDelta == lineDeltaOf(change)
        branch == changeBranch(tikzPicture, change)
    IN  CASE branch = "after" -> st
          [] branch = "before" ->
                IF \/ translateThrows(tikzPicture.range.start, lineDelta, 0)
                   \/ translateThrows(tikzPicture.range.end, lineDelta, 0)
                THEN [st EXCEPT !.thrown = TRUE]
                ELSE [st EXCEPT !.objs[id].range =
                          Range(translate(tikzPicture.range.start, lineDelta, 0),
                                translate(tikzPicture.range.end, lineDelta, 0))]
          [] branch = "removed" ->
                [st EXCEPT !.arr = spliceOut(st.arr, id),
                           !.cleaned = Append(st.cleaned, id)]
          [] OTHER ->
                LET r == processModificationToTikzPicture(doc, tikzPicture, change, lineDelta)
                IN  IF r.thrown
                    THEN [st EXCEPT !.thrown = TRUE]
                    ELSE [st EXCEPT !.objs[id] = r.pic,
                                    !.toUpdate = IF includes(st.toUpdate, id)
                                                 THEN st.toUpdate
                                                 ELSE Append(st.toUpdate, id)]

\* for (const change of changes), from the k-th change on.
RECURSIVE changesLoop(_, _, _, _, _)
changesLoop(doc, changes, st, id, k) ==
    IF st.thrown \/ k > Len(changes)
    THEN st
    ELSE changesLoop(doc, changes, applyChange(doc, st, id, changes[k]), id, k + 1)

\* The body of the loop over the fragments, for the fragment id.
fragmentBody(doc, changes, clients, st, id) ==
    IF ~viewerActive(clients, st.objs[id])
    THEN [st EXCEPT !.arr = spliceOut(st.arr, id),
                    !.cleaned = Append(st.cleaned, id)]
    ELSE changesLoop(doc, changes, st, id, 1)

\* for (const tikzPicture of tikzPictures): the array iterator reads element i
\* of the array as it is then, and goes on to i + 1 whatever the body spliced.
RECURSIVE fragmentLoop(_, _, _, _, _)
fragmentLoop(doc, changes, clients, st, i) ==
    IF st.thrown \/ i > Len(st.arr)
    THEN st
    ELSE fragmentLoop(doc, changes, clients,
                      fragmentBody(doc, changes, clients, st, st.arr[i]), i + 1)


(***************************************************************************)
(* generatePreamble (lines 291-353), with preambleContents empty and       *)
(* parseTeXFile set.  The file on disk is a document; "u" is a declaration *)
(* the pattern of line 312 matches and "D" is \begin{document}.  A         *)
(* preamble is a sequence of declarations: the generated one is the        *)
(* baseline import "t" of line 343 and the declarations matched, in order  *)
(* (the trailer of lines 350-351 is the same in every call and left out).  *)
(* The empty string a session starts with is the empty sequence.           *)
(***************************************************************************)
NoPreamble == <<>>

RECURSIVE flatten(_)
flatten(lines) ==
    IF lines = <<>> THEN <<>> ELSE Head(lines) \o flatten(Tail(lines))

RECURSIVE declarations(_)
declarations(chars) ==
    IF chars = <<>> THEN <<>>
    ELSE IF Head(chars) = "u" THEN <<"u">> \o declarations(Tail(chars))
    ELSE declarations(Tail(chars))

\* content.split('\\begin{document}')[0]
beforeBeginDocument(chars) ==
    IF \E i \in 1..Len(chars) : chars[i] = "D"
    THEN SubSeq(chars, 1, (CHOOSE i \in 1..Len(chars) :
                              chars[i] = "D" /\ \A j \in 1..(i - 1) : chars[j] # "D") - 1)
    ELSE chars

\* maxParsedLine is -1 for a call without it.  nthIndex gives -1 when the file
\* has fewer than maxParsedLine line breaks, and substring(0, -1) is empty.
generatePreamble(file, maxParsedLine) ==
    LET stripped == [i \in 1..Len(file) |-> stripComments(file[i])]
        content == IF maxParsedLine > 0
                   THEN IF Len(file) - 1 >= maxParsedLine
                        THEN flatten(SubSeq(stripped, 1, maxParsedLine))
                        ELSE <<>>
                   ELSE beforeBeginDocument(flatten(stripped))
    IN  <<"t">> \o declarations(content)

(***************************************************************************)
(* The documents a behaviour starts from, the ranges view is called with   *)
(* (a picture runs from an opening marker to just past the next closing    *)
(* marker) and the changes the editor reports.                             *)
(***************************************************************************)
InitDocs ==
    { << <<"u">>, <<"B", "}">>, <<"x", "E", "}", "x">>, <<"B", "}", "E", "}">> >>,
      << <<"B", "}", "x">>, <<"%", "E", "}">>, <<"x", "E", "}">>, <<"u">> >> }

\* The positions of a document that are not inside a marker: the editor's
\* changes start and end at these.
insideMarker(line, c) ==
    \E i \in 0..Len(line) :
        /\ matchesAt(line, BeginMarker, i) \/ matchesAt(line, EndMarker, i)
        /\ i < c
        /\ c < i + Len(BeginMarker)

Positions(doc) ==
    UNION { { Pos(l, c) : c \in { k \in 0..Len(doc[l + 1]) : ~insideMarker(doc[l + 1], k) } } :
            l \in 0..(Len(doc) - 1) }

\* The position just past the first closing marker at or after position p.
closingAfter(doc, p) ==
    LET first == search(stripComments(SubSeq(doc[p.line + 1], p.character + 1,
                                             Len(doc[p.line + 1]))), EndMarker)
        m == IF p.line + 1 >= Len(doc) THEN NotSearched
             ELSE searchLines(doc, p.line + 1, Len(doc) - 2, EndMarker, TRUE)
    IN  IF first # -1
        THEN [found |-> TRUE, pos |-> Pos(p.line, p.character + first + Len(EndMarker))]
        ELSE IF m.found
        THEN [found |-> TRUE, pos |-> Pos(m.line, m.index + Len(EndMarker))]
        ELSE [found |-> FALSE, pos |-> p]

PictureRanges(doc) ==
    { [start |-> p, end |-> closingAfter(doc, p).pos] :
        p \in { q \in Positions(doc) :
                  /\ matchesAt(stripComments(doc[q.line + 1]), BeginMarker, q.character)
                  /\ closingAfter(doc, q).found } }

emptyLines(k) == [i \in 1..(k + 1) |-> <<>>]

Texts == { emptyLines(k) : k \in 0..MaxNewlines }

Changes(doc) ==
    { ch \in [range : [start : Positions(doc), end : Positions(doc)], text : Texts] :
        /\ isBeforeOrEqual(ch.range.start, ch.range.end)
        /\ ~(ch.range.start = ch.range.end /\ ch.text = emptyLines(0)) }


(***************************************************************************)
(* The state.                                                              *)
(***************************************************************************)
VARIABLES
    clock,          \* +new Date()
    delay,          \* configuration latex-utilities.tikzpreview.delay
    timeout,        \* configuration latex-utilities.tikzpreview.timeout
    doc,            \* the live document
    file,           \* the document as last saved (texFileLocation on disk)
    batches,        \* the number of edits made so far
    hasCollection,  \* document.uri.fsPath in tikzCollections
    tikzPictures,   \* the session's tikzPictures
    preamble,       \* the session's preamble
    lastChange,     \* the session's lastChange
    nextId,         \* the number of fragment objects created so far
    timers,         \* the setTimeout callbacks not yet run, in scheduling order
    precompiles,    \* the pdftex processes of precompilePreamble still running
    preambleTex,    \* the contents of preamble.tex
    format,         \* the preamble the precompiled format was built from
    tabs,           \* the pdfs the viewer was asked to open
    clients,        \* the pdfs whose viewer client set is not empty
    staleCompile,   \* some fragment was compiled while format # preamble
    latexmkFails,   \* execSync of latexmk on a fragment throws (lines 203-210)
    log,            \* the calls of onFileChange by the editor and the passes run
    last            \* what the handler that ran last did

vars == << clock, delay, timeout, doc, file, batches, hasCollection, tikzPictures,
           preamble, lastChange, nextId, timers, precompiles, preambleTex, format,
           tabs, clients, staleCompile, latexmkFails, log, last >>

\* The configurations and the document of the specification of the timing.
Delays == {0, 2}
Timeouts == {0, 2}
AsyncDoc == << <<"u">>, <<"B", "}", "E", "}">> >>

\* The configuration of the specification of the tracking.
TrackDelay == 2
TrackTimeout == 2

NoLast ==
    [ kind |-> "none",          \* which handler ran and how it ended
      waited |-> FALSE,         \* waitedDelay
      changes |-> <<>>,         \* the changes it was called with
      startClock |-> 0,         \* the clock when it started
      lastChangeBefore |-> 0,   \* lastChange when it started
      docBefore |-> <<>>,       \* the document before the edit that called it
      doc |-> <<>>,             \* the document it read
      pre |-> <<>>,             \* tikzPictures when it started
      preClients |-> {},        \* clients when it started
      post |-> <<>>,            \* tikzPictures when it ended
      objs |-> <<>>,            \* every fragment object when it ended, by id
      cleaned |-> <<>>,         \* ids passed to cleanupTikzPicture
      toUpdate |-> <<>>,        \* tikzPicturesToUpdate at the end of the loop
      compiled |-> <<>>,        \* the updateTikzPicture calls, in order
      thrown |-> FALSE,         \* an exception left the handler
      checked |-> FALSE,        \* checkPreamble compared the preambles
      generated |-> NoPreamble, \* what generatePreamble returned
      preambleBefore |-> NoPreamble,
      started |-> FALSE,        \* precompilePreamble was called
      status |-> "none",        \* stable, updated, failed, or waiting
      entry |-> 0 ]             \* the id getTikzEntry returned

\* The state after construction (lines 31-38); the document is as on disk.
Constructed ==
    /\ clock = 0
    /\ file = doc
    /\ batches = 0
    /\ hasCollection = FALSE
    /\ tikzPictures = <<>>
    /\ preamble = NoPreamble
    /\ lastChange = 0
    /\ nextId = 0
    /\ timers = <<>>
    /\ precompiles = <<>>
    /\ preambleTex = NoPreamble
    /\ format = NoPreamble
    /\ tabs = {}
    /\ clients = {}
    /\ staleCompile = FALSE
    /\ log = <<>>
    /\ last = NoLast

Init ==
    /\ delay = TrackDelay
    /\ timeout = TrackTimeout
    /\ doc \in InitDocs
    /\ latexmkFails = FALSE
    /\ Constructed

InitAsync ==
    /\ delay \in Delays
    /\ timeout \in Timeouts
    /\ doc = AsyncDoc
    /\ latexmkFails = FALSE
    /\ Constructed

InitPreamble ==
    /\ delay = TrackDelay
    /\ timeout = TrackTimeout
    /\ doc = AsyncDoc
    /\ latexmkFails \in BOOLEAN
    /\ Constructed

(***************************************************************************)
(* updateTikzPicture (lines 197-226).  A world w holds what it reads and   *)
(* writes: tabs, clients, and the log of compiles.  The fragment is        *)
(* compiled with the format that is on disk, whatever preamble the session *)
(* holds, and a failure of the compile is caught (lines 202-210); then the *)
(* viewer is refreshed, or a tab is opened when the viewer has no client.  *)
(***************************************************************************)
updateTikzPicture(w, tikzPicture, caller) ==
    [ w EXCEPT
        !.compiled = Append(w.compiled,
                            [ pic |-> tikzPicture,
                              by |-> caller,
                              ok |-> ~w.fails,
                              format |-> w.format,
                              preamble |-> w.preamble,
                              viewer |-> IF viewerActive(w.clients, tikzPicture)
                                         THEN "refreshExistingViewer" ELSE "openTab" ]),
        !.tabs = IF viewerActive(w.clients, tikzPicture)
                 THEN w.tabs ELSE w.tabs \cup {tikzPicture.tempFile} ]

RECURSIVE updateAll(_, _, _)
updateAll(w, pics, caller) ==
    IF pics = <<>> THEN w
    ELSE updateAll(updateTikzPicture(w, Head(pics), caller), Tail(pics), caller)

World(currentFormat, currentPreamble) ==
    [ tabs |-> tabs, clients |-> clients, compiled |-> <<>>,
      format |-> currentFormat, preamble |-> currentPreamble, fails |-> latexmkFails ]

isStale(compiled) == \E i \in 1..Len(compiled) : compiled[i].format # compiled[i].preamble


(***************************************************************************)
(* checkPreamble (lines 273-289) up to its await of precompilePreamble:    *)
(* when the generated preamble differs, it is stored in the session,       *)
(* written to preamble.tex (line 357), and a pdftex process is started.    *)
(* The rest of checkPreamble is PrecompileExit and PrecompileError.        *)
(***************************************************************************)
\* preambleDiffers without the comparison of line 275.
preambleAlwaysDiffers(generated) == TRUE

preambleDiffers(generated) == preamble # generated

startPrecompile(generated, caller) ==
    /\ preamble' = generated
    /\ preambleTex' = generated
    /\ precompiles' = Append(precompiles, [preamble |-> generated, caller |-> caller])

noPrecompile == UNCHANGED << preamble, preambleTex, precompiles >>

(***************************************************************************)
(* view (lines 40-64), with getFileTikzCollection (228-246) and            *)
(* getTikzEntry (248-271).                                                 *)
(***************************************************************************)
\* getTikzEntry without the search of lines 255-259.
getTikzEntryNeverFound(range) == FALSE

getTikzEntryFound(range) == \E i \in 1..Len(tikzPictures) : tikzPictures[i].range = range

getTikzEntryIndex(range) ==
    IF getTikzEntryFound(range)
    THEN CHOOSE i \in 1..Len(tikzPictures) :
            /\ tikzPictures[i].range = range
            /\ \A j \in 1..(i - 1) : tikzPictures[j].range # range
    ELSE Len(tikzPictures) + 1

newTikzPicture(range) ==
    [ id |-> nextId + 1,
      range |-> range,
      content |-> getText(doc, range),
      tempFile |-> clock % TempFileModulus,
      lastChange |-> clock ]

View(range) ==
    LET pics == IF getTikzEntryFound(range)
                THEN tikzPictures
                ELSE Append(tikzPictures, newTikzPicture(range))
        tikzPicture == pics[getTikzEntryIndex(range)]
        generated == generatePreamble(file, range.start.line)
        w == IF preambleDiffers(generated)
             THEN World(format, preamble)
             ELSE updateTikzPicture(World(format, preamble), tikzPicture, "view")
    IN  /\ getTikzEntryFound(range) \/ nextId < MaxPictures
        /\ hasCollection' = TRUE
        /\ lastChange' = IF hasCollection THEN lastChange ELSE clock
        /\ tikzPictures' = pics
        /\ nextId' = IF getTikzEntryFound(range) THEN nextId ELSE nextId + 1
        /\ IF preambleDiffers(generated)
           THEN startPrecompile(generated, "view")
           ELSE noPrecompile
        /\ tabs' = w.tabs
        /\ staleCompile' = (staleCompile \/ isStale(w.compiled))
        /\ last' = [ NoLast EXCEPT
                       !.kind = "view",
                       !.startClock = clock,
                       !.lastChangeBefore = lastChange,
                       !.doc = doc,
                       !.pre = tikzPictures,
                       !.preClients = clients,
                       !.post = pics,
                       !.compiled = w.compiled,
                       !.checked = TRUE,
                       !.generated = generated,
                       !.preambleBefore = preamble,
                       !.started = preambleDiffers(generated),
                       !.status = IF preambleDiffers(generated) THEN "waiting" ELSE "stable",
                       !.entry = tikzPicture.id ]
        /\ UNCHANGED << latexmkFails, clock, delay, timeout, doc, file, batches, timers, format, clients,
                        log >>

(***************************************************************************)
(* onFileChange (lines 66-143).  document is the live document the handler *)
(* reads, pendingTimers the timers left once the handler was entered.      *)
(***************************************************************************)
loopStart ==
    [ arr |-> [i \in 1..Len(tikzPictures) |-> tikzPictures[i].id],
      objs |-> [id \in 1..nextId |->
                   IF \E i \in 1..Len(tikzPictures) : tikzPictures[i].id = id
                   THEN tikzPictures[CHOOSE i \in 1..Len(tikzPictures) : tikzPictures[i].id = id]
                   ELSE [id |-> id, range |-> [start |-> Pos(0, 0), end |-> Pos(0, 0)],
                         content |-> << <<>> >>, tempFile |-> -1, lastChange |-> -1]],
      toUpdate |-> <<>>,
      cleaned |-> <<>>,
      thrown |-> FALSE ]

\* What every return of onFileChange before line 93 leaves as it was.
onFileChangeReturns(kind, document, changes, waitedDelay, docBefore) ==
    /\ last' = [ NoLast EXCEPT
                   !.kind = kind,
                   !.waited = waitedDelay,
                   !.changes = changes,
                   !.startClock = clock,
                   !.lastChangeBefore = lastChange,
                   !.docBefore = docBefore,
                   !.doc = document,
                   !.pre = tikzPictures,
                   !.preClients = clients,
                   !.post = tikzPictures,
                   !.preambleBefore = preamble ]
    /\ UNCHANGED << tikzPictures, tabs, staleCompile >>
    /\ noPrecompile

\* Lines 93-142: the preamble check is started, the fragments are looped over
\* and the queued ones compiled; then the preamble check, which was waiting for
\* generatePreamble, compares and stores the preamble.
onFileChangePass(document, changes, waitedDelay, docBefore) ==
    \E st \in { fragmentLoop(document, changes, clients, loopStart, 1) } :
    \E post \in { [i \in 1..Len(st.arr) |-> st.objs[st.arr[i]]] } :
    \E queued \in { [i \in 1..Len(st.toUpdate) |-> st.objs[st.toUpdate[i]]] } :
    \E w \in { IF st.thrown
               THEN World(format, preamble)
               ELSE updateAll(World(format, preamble), queued, "onFileChange") } :
    \E generated \in { generatePreamble(file, -1) } :
        /\ tikzPictures' = post
        /\ tabs' = w.tabs
        /\ staleCompile' = (staleCompile \/ isStale(w.compiled))
        /\ IF preambleDiffers(generated)
           THEN startPrecompile(generated, "onFileChange")
           ELSE noPrecompile
        /\ last' = [ NoLast EXCEPT
                       !.kind = "pass",
                       !.waited = waitedDelay,
                       !.changes = changes,
                       !.startClock = clock,
                       !.lastChangeBefore = lastChange,
                       !.docBefore = docBefore,
                       !.doc = document,
                       !.pre = tikzPictures,
                       !.preClients = clients,
                       !.post = post,
                       !.objs = st.objs,
                       !.cleaned = st.cleaned,
                       !.toUpdate = st.toUpdate,
                       !.compiled = w.compiled,
                       !.thrown = st.thrown,
                       !.checked = TRUE,
                       !.generated = generated,
                       !.preambleBefore = preamble,
                       !.started = preambleDiffers(generated),
                       !.status = IF preambleDiffers(generated) THEN "waiting" ELSE "stable" ]

\* trackingDisabled without the test of the delay.
disabledWithoutSession == ~hasCollection

\* Line 75: the delay is 0, or the document has no session.
trackingDisabled == delay = 0 \/ ~hasCollection

\* batch numbers the edit the changes come from; called is the log with the
\* editor's call added to it.
onFileChange(document, changes, waitedDelay, pendingTimers, docBefore, batch) ==
    LET called == IF waitedDelay
                  THEN log
                  ELSE Append(log, [type |-> "call", batch |-> batch, at |-> clock])
    IN
    IF trackingDisabled
    THEN /\ onFileChangeReturns("ignored", document, changes, waitedDelay, docBefore)
         /\ timers' = pendingTimers
         /\ log' = called
         /\ UNCHANGED << clock, lastChange >>
    ELSE IF clock - lastChange < delay
    THEN IF ~waitedDelay
         THEN /\ onFileChangeReturns("deferred", document, changes, waitedDelay, docBefore)
              /\ lastChange' = clock
              /\ timers' = Append(pendingTimers,
                                  [changes |-> changes, due |-> clock + delay, batch |-> batch])
              /\ log' = called
              /\ UNCHANGED clock
         ELSE /\ onFileChangeReturns("dropped", document, changes, waitedDelay, docBefore)
              /\ timers' = pendingTimers
              /\ log' = called
              /\ UNCHANGED << clock, lastChange >>
    ELSE \* Line 87 stores the clock; line 89 reads the clock again, which may
         \* have ticked, and compares it with the value just stored.  When the
         \* batch is not dropped, a tick between the two lines is a Tick after
         \* the handler.
         /\ lastChange' = clock
         /\ timers' = pendingTimers
         /\ \E second \in {clock, Min(clock + 1, MaxClock)} :
              IF second - clock > timeout
              THEN /\ onFileChangeReturns("timedOut", document, changes, waitedDelay, docBefore)
                   /\ clock' = second
                   /\ log' = called
              ELSE /\ clock' = clock
                   /\ log' = Append(called, [type |-> "pass", batch |-> batch, at |-> clock])
                   /\ onFileChangePass(document, changes, waitedDelay, docBefore)

(***************************************************************************)
(* The batches of changes the editor reports.  The ranges of the changes   *)
(* of one batch are positions of the document before the edit, so the      *)
(* document after it is found by applying them from the last position to   *)
(* the first.  A batch is one change, or two insertions of a line break at *)
(* different positions (an edit with two cursors).                         *)
(***************************************************************************)
Insertions(document) ==
    { ch \in Changes(document) : ch.range.start = ch.range.end /\ ch.text = emptyLines(1) }

Batches(document) ==
    { <<ch>> : ch \in Changes(document) } \cup
    { pair \in { <<a, b>> : a \in Insertions(document), b \in Insertions(document) } :
        pair[1] # pair[2] }

\* The batches of the specification of the timing: an insertion of a line
\* break at the start of a line.
FewBatches(document) ==
    { <<ch>> : ch \in { c \in Insertions(document) : c.range.start.character = 0 } }

RECURSIVE ApplyBatch(_, _)
ApplyBatch(document, changeSet) ==
    IF changeSet = {} THEN document
    ELSE LET lastOne == CHOOSE ch \in changeSet :
                            \A other \in changeSet :
                                isBeforeOrEqual(other.range.start, ch.range.start)
         IN  ApplyBatch(ApplyChange(document, lastOne), changeSet \ {lastOne})

asSet(seq) == { seq[i] : i \in 1..Len(seq) }

(***************************************************************************)
(* The actions.                                                            *)
(***************************************************************************)
\* The editor applies a batch of changes and calls onFileChange with it.
Edit(changes, maxBatches) ==
    /\ batches < maxBatches
    /\ batches' = batches + 1
    /\ \E edited \in { ApplyBatch(doc, asSet(changes)) } :
         /\ doc' = edited
         /\ onFileChange(edited, changes, FALSE, timers, doc, batches + 1)
    /\ UNCHANGED << latexmkFails, delay, timeout, file, hasCollection, nextId, format, clients >>

\* The callback of setTimeout (lines 80-82): timers of one delay run in the
\* order they were set, none before it is due.
TimerFire ==
    /\ timers # <<>>
    /\ Head(timers).due <= clock
    /\ onFileChange(doc, Head(timers).changes, TRUE, Tail(timers), doc, Head(timers).batch)
    /\ UNCHANGED << latexmkFails, delay, timeout, doc, file, batches, hasCollection, nextId, format,
                    clients >>

\* The pdftex process of a precompile exits (line 364): checkPreamble goes on
\* to compile every fragment then tracked and returns 'updated'.  Two
\* processes running at once read the preamble.tex the later one wrote or the
\* one they were started with.
PrecompileExit(i) ==
    /\ i \in 1..Len(precompiles)
    /\ \E built \in {precompiles[i].preamble, preambleTex} :
         LET w == updateAll(World(built, preamble), tikzPictures, "checkPreamble")
         IN  /\ format' = built
             /\ tabs' = w.tabs
             /\ staleCompile' = (staleCompile \/ isStale(w.compiled))
             /\ last' = [ NoLast EXCEPT
                            !.kind = "precompiled",
                            !.startClock = clock,
                            !.lastChangeBefore = lastChange,
                            !.doc = doc,
                            !.pre = tikzPictures,
                            !.preClients = clients,
                            !.post = tikzPictures,
                            !.compiled = w.compiled,
                            !.generated = precompiles[i].preamble,
                            !.preambleBefore = preamble,
                            !.status = "updated" ]
    /\ precompiles' = removeAt(precompiles, i)
    /\ UNCHANGED << latexmkFails, clock, delay, timeout, doc, file, batches, hasCollection, tikzPictures,
                    preamble, lastChange, nextId, timers, preambleTex, clients, log >>

\* The pdftex process could not be run (line 367): checkPreamble throws.
PrecompileError(i) ==
    /\ i \in 1..Len(precompiles)
    /\ precompiles' = removeAt(precompiles, i)
    /\ last' = [ NoLast EXCEPT
                   !.kind = "precompileFailed",
                   !.startClock = clock,
                   !.lastChangeBefore = lastChange,
                   !.doc = doc,
                   !.pre = tikzPictures,
                   !.preClients = clients,
                   !.post = tikzPictures,
                   !.generated = precompiles[i].preamble,
                   !.preambleBefore = preamble,
                   !.thrown = TRUE,
                   !.status = "failed" ]
    /\ UNCHANGED << latexmkFails, clock, delay, timeout, doc, file, batches, hasCollection, tikzPictures,
                    preamble, lastChange, nextId, timers, preambleTex, format, tabs,
                    clients, staleCompile, log >>

Tick(maxClock) ==
    /\ clock < maxClock
    /\ clock' = clock + 1
    /\ UNCHANGED << latexmkFails, delay, timeout, doc, file, batches, hasCollection, tikzPictures,
                    preamble, lastChange, nextId, timers, precompiles, preambleTex,
                    format, tabs, clients, staleCompile, log >>
    /\ last' = NoLast

\* The user saves the document.
Save ==
    /\ file # doc
    /\ file' = doc
    /\ UNCHANGED << latexmkFails, clock, delay, timeout, doc, batches, hasCollection, tikzPictures,
                    preamble, lastChange, nextId, timers, precompiles, preambleTex,
                    format, tabs, clients, staleCompile, log >>
    /\ last' = NoLast

\* The viewer of an opened pdf connects; the user closes a viewer.
ClientConnect(f) ==
    /\ f \in tabs \ clients
    /\ clients' = clients \cup {f}
    /\ UNCHANGED << latexmkFails, clock, delay, timeout, doc, file, batches, hasCollection, tikzPictures,
                    preamble, lastChange, nextId, timers, precompiles, preambleTex,
                    format, tabs, staleCompile, log >>
    /\ last' = NoLast

ClientClose(f) ==
    /\ f \in clients
    /\ clients' = clients \ {f}
    /\ tabs' = tabs \ {f}
    /\ UNCHANGED << latexmkFails, clock, delay, timeout, doc, file, batches, hasCollection, tikzPictures,
                    preamble, lastChange, nextId, timers, precompiles, preambleTex,
                    format, staleCompile, log >>
    /\ last' = NoLast

(***************************************************************************)
(* The specification of the tracking: every batch of changes on a session  *)
(* whose fragments were viewed, in behaviours that end when the handler of *)
(* the last edit has run (a deferred edit's when its timer has).           *)
(***************************************************************************)
Open == batches < MaxBatches

Next ==
    \/ Open /\ Tick(MaxTrackClock)
    \/ Open /\ \E f \in tabs : ClientConnect(f)
    \/ Open /\ \E f \in clients : ClientClose(f)
    \/ Open /\ \E range \in PictureRanges(doc) : View(range)
    \/ Open /\ \E i \in 1..Len(precompiles) : PrecompileExit(i)
    \/ Open /\ \E changes \in Batches(doc) : Edit(changes, MaxBatches)
    \/ timers # <<>> /\ Tick(MaxTrackClock)
    \/ TimerFire

Spec == Init /\ [][Next]_vars

(***************************************************************************)
(* The specification of the debounce: edits in quick succession and their  *)
(* timers, in every configuration.                                         *)
(***************************************************************************)
NextDebounce ==
    \/ Tick(MaxClock)
    \/ \E range \in PictureRanges(doc) : View(range)
    \/ TimerFire
    \/ batches < MaxAsyncBatches /\ \E changes \in FewBatches(doc) : Edit(changes, MaxAsyncBatches)

SpecDebounce == InitAsync /\ [][NextDebounce]_vars

(***************************************************************************)
(* The specification of the preamble cache: the handlers interleaved with  *)
(* the pdftex processes, the saves of the document and the viewer.         *)
(***************************************************************************)
NextPreamble ==
    \/ Tick(MaxTrackClock)
    \/ Save
    \/ \E f \in tabs : ClientConnect(f)
    \/ \E f \in clients : ClientClose(f)
    \/ \E range \in PictureRanges(doc) : View(range)
    \/ \E i \in 1..Len(precompiles) : PrecompileExit(i)
    \/ \E i \in 1..Len(precompiles) : PrecompileError(i)
    \/ TimerFire
    \/ Open /\ \E changes \in FewBatches(doc) : Edit(changes, MaxBatches)

SpecPreamble == InitPreamble /\ [][NextPreamble]_vars

(***************************************************************************)
(* What the claims are stated with.  last describes the handler that has   *)
(* just run; every other step resets it.                                   *)
(***************************************************************************)
ProcessedPass == last.kind = "pass"

idsOf(pics) == { pics[i].id : i \in 1..Len(pics) }

TrackedBefore == { last.pre[i] : i \in 1..Len(last.pre) }

ActiveAtStart(f) == f.tempFile \in last.preClients

StillTracked(f) == f.id \in idsOf(last.post)

CleanedUp(f) == includes(last.cleaned, f.id)

RecompiledByPass(f) ==
    \E i \in 1..Len(last.compiled) :
        last.compiled[i].by = "onFileChange" /\ last.compiled[i].pic.id = f.id

OneChange == Len(last.changes) = 1

\* C1: a processed edit whose replaced range starts at or before the start of
\* a tracked fragment with an active viewer and ends after that start removes
\* the fragment from tikzPictures and calls cleanupTikzPicture for it,
\* whatever the replacement text.
C1_Deletion ==
    (ProcessedPass /\ ~last.waited /\ OneChange) =>
        \A f \in TrackedBefore :
            ( /\ ActiveAtStart(f)
              /\ isBeforeOrEqual(last.changes[1].range.start, f.range.start)
              /\ isAfter(last.changes[1].range.end, f.range.start) )
            => (~StillTracked(f) /\ CleanedUp(f))

\* C2: a processed edit whose replaced range starts strictly after the start
\* of a tracked fragment with an active viewer and at or before its end leaves
\* the fragment tracked and recompiles it, whatever the number of lines of the
\* replacement text.
C2_Reanchored ==
    (ProcessedPass /\ OneChange) =>
        \A f \in TrackedBefore :
            ( /\ ActiveAtStart(f)
              /\ isAfter(last.changes[1].range.start, f.range.start)
              /\ isBeforeOrEqual(last.changes[1].range.start, f.range.end) )
            => (StillTracked(f) /\ RecompiledByPass(f))

\* C3: every fragment tracked at the start of a processed pass whose viewer has
\* no client is removed from tikzPictures by that pass and is cleaned up,
\* whatever the batch and wherever the fragment is in the array.
C3_ViewerGatedGC ==
    ProcessedPass =>
        \A f \in TrackedBefore :
            ~ActiveAtStart(f) => (~StillTracked(f) /\ CleanedUp(f))

\* C4: a processed batch of one edit whose replaced range ends strictly before
\* the start of a tracked fragment with an active viewer moves the fragment's
\* start and end lines by the edit's line delta, keeps its columns and its
\* content, and leaves it tracked, wherever the fragment is in the array.
C4_Translation ==
    (ProcessedPass /\ OneChange) =>
        \A f \in TrackedBefore :
            ( /\ ActiveAtStart(f)
              /\ isBefore(last.changes[1].range.end, f.range.start) )
            => /\ StillTracked(f)
               /\ last.objs[f.id].range =
                    [ start |-> Pos(f.range.start.line + lineDeltaOf(last.changes[1]),
                                    f.range.start.character),
                      end |-> Pos(f.range.end.line + lineDeltaOf(last.changes[1]),
                                  f.range.end.character) ]
               /\ last.objs[f.id].content = f.content

\* C5: a processed batch in which every edit's replaced range starts strictly
\* after the end of a tracked fragment with an active viewer leaves that
\* fragment's range, content, tempFile and lastChange as they were, and the
\* pass does not recompile it from its recompile set.
C5_NoOpInvariance ==
    ProcessedPass =>
        \A f \in TrackedBefore :
            ( /\ ActiveAtStart(f)
              /\ \A k \in 1..Len(last.changes) :
                    isAfter(last.changes[k].range.start, f.range.end) )
            => (last.objs[f.id] = f /\ ~RecompiledByPass(f))

\* A pass ran on a batch all of whose edits start after the end of a tracked
\* fragment with an active viewer, one of them on the line the fragment ends on,
\* while another tracked fragment was re-anchored.
C5_Witness ==
    /\ ProcessedPass
    /\ \E f \in TrackedBefore :
          /\ ActiveAtStart(f)
          /\ \A k \in 1..Len(last.changes) :
                isAfter(last.changes[k].range.start, f.range.end)
          /\ \E k \in 1..Len(last.changes) :
                last.changes[k].range.start.line = f.range.end.line
          /\ last.objs[f.id] = f
    /\ last.toUpdate # <<>>

\* The closing marker of the picture that starts at position p of a document.
closingMarker(document, p) ==
    Pos(closingAfter(document, p).pos.line,
        closingAfter(document, p).pos.character - Len(EndMarker))

IsPicture(document, range) ==
    /\ ~lineAtThrows(document, range.start.line)
    /\ matchesAt(stripComments(lineAt(document, range.start.line)), BeginMarker,
                 range.start.character)
    /\ closingAfter(document, range.start).found
    /\ closingAfter(document, range.start).pos = range.end

\* Where the closing marker at position m is after lines were inserted at p.
markerAfterInsertion(m, change) ==
    IF change.range.start.line = m.line
    THEN Pos(m.line + Len(change.text) - 1,
             m.character - change.range.start.character
                + Len(change.text[Len(change.text)]))
    ELSE Pos(m.line + Len(change.text) - 1, m.character)

\* C6: for a tracked fragment (viewer active) whose range runs from its opening
\* marker to just past its closing marker, a processed edit that inserts one or
\* more lines after the opening marker and at or before the closing marker
\* leaves the fragment tracked, its end just past the closing marker's
\* position after the edit, and its content the document's text over its range.
C6_ReanchorCorrect ==
    (ProcessedPass /\ OneChange) =>
        \A f \in TrackedBefore :
            ( /\ ActiveAtStart(f)
              /\ IsPicture(last.docBefore, f.range)
              /\ last.changes[1].range.start = last.changes[1].range.end
              /\ Len(last.changes[1].text) >= 2
              /\ isBeforeOrEqual(translate(f.range.start, 0, Len(BeginMarker)),
                                 last.changes[1].range.start)
              /\ isBeforeOrEqual(last.changes[1].range.start,
                                 closingMarker(last.docBefore, f.range.start)) )
            => /\ StillTracked(f)
               /\ last.objs[f.id].range.end =
                    translate(markerAfterInsertion(closingMarker(last.docBefore, f.range.start),
                                                   last.changes[1]),
                              0, Len(EndMarker))
               /\ last.objs[f.id].content = getText(last.doc, last.objs[f.id].range)

(***************************************************************************)
(* Debounce and timeout, stated over log: the change notifications that    *)
(* were not ignored, and the passes, each with the clock it happened at.   *)
(***************************************************************************)
IsCall(e) == e.type = "call"

IsPass(e) == e.type = "pass"

calls == SelectSeq(log, IsCall)

passes == SelectSeq(log, IsPass)

\* Notifications i..j, each less than delay after the one before it.
Burst(i, j) ==
    /\ i < j
    /\ \A k \in i..(j - 1) : calls[k + 1].at - calls[k].at < delay

passesOf(i, j) ==
    { n \in 1..Len(passes) : \E k \in i..j : passes[n].batch = calls[k].batch }

\* C7: of a burst of change notifications for one file, each less than delay
\* after the previous one, at most one is processed, and no pass for the burst
\* runs before delay has passed since the burst's last notification.
C7_DebounceCoalescing ==
    \A i \in 1..Len(calls) : \A j \in 1..Len(calls) :
        Burst(i, j) =>
            /\ Cardinality(passesOf(i, j)) <= 1
            /\ \A n \in passesOf(i, j) : passes[n].at >= calls[j].at + delay

\* C8: a change notification that arrives more than timeout after the
\* previous edit is dropped: no fragment is re-anchored, removed or
\* recompiled, and the preamble is not checked.
C8_TimeoutDrops ==
    ( /\ last.kind \in {"pass", "deferred", "dropped", "timedOut"}
      /\ last.startClock - last.lastChangeBefore > timeout )
    => /\ last.post = last.pre
       /\ last.cleaned = <<>>
       /\ last.compiled = <<>>
       /\ ~last.checked

\* C9: every compile runs with the preamble cache set to the source the
\* precompiled format on disk was built from.
C9_PrecompileBeforeCompile == ~staleCompile

compiledBy(caller) ==
    SelectSeq(last.compiled, LAMBDA c : c.by = caller)

Viewed == last.kind = "view"

\* The fragment the view request that has just run resolved to.
entryOf == { f \in { last.post[i] : i \in 1..Len(last.post) } : f.id = last.entry }

distinctRanges(pics) ==
    \A i \in 1..Len(pics) : \A j \in 1..Len(pics) :
        i # j => pics[i].range # pics[j].range

\* C11: a view request whose range equals the range of a fragment already
\* tracked resolves to that fragment, with its tempFile, and adds no entry; and
\* as long as only view requests were made, no two tracked fragments have
\* equal ranges.
C11_IdentityReuse ==
    /\ Viewed =>
          \A e \in entryOf : \A f \in TrackedBefore :
              f.range = e.range =>
                  /\ last.post = last.pre
                  /\ e = f
    /\ Viewed => Cardinality(entryOf) = 1
    /\ batches = 0 => distinctRanges(tikzPictures)

\* A view request has just resolved to a fragment that was tracked before it,
\* while two fragments were tracked.
C11_Witness ==
    /\ Viewed
    /\ Len(last.pre) = 2
    /\ last.post = last.pre
    /\ \E e \in entryOf : e \in TrackedBefore
    /\ batches = 0

(***************************************************************************)
(* Failures.                                                               *)
(***************************************************************************)
\* C12: updateTikzPicture calls refreshExistingViewer or openTab for a fragment
\* only when the compile it has just run succeeded; after a failed compile no
\* viewer call is made.
C12_NotifyOnSuccessOnly ==
    \A i \in 1..Len(last.compiled) :
        ~last.compiled[i].ok =>
            last.compiled[i].viewer \notin {"refreshExistingViewer", "openTab"}

\* C13: no exception leaves an onFileChange pass, whatever the batch and the
\* document: not when a marker search reads a line the document no longer
\* has, nor when a fragment's recorded lines were deleted.
C13_NoUncaughtFailure == ProcessedPass => ~last.thrown

(***************************************************************************)
(* The order and the fate of the batches.  The batches are numbered in     *)
(* the order the editor delivers them.                                     *)
(***************************************************************************)
\* C14: when two batches are both applied to the fragments, the pass of the
\* one delivered first runs first: a deferred batch is never applied after a
\* batch delivered later than it, however late its timer fires.
C14_ArrivalOrder ==
    \A n \in 1..Len(passes) : \A m \in 1..Len(passes) :
        n < m => passes[n].batch < passes[m].batch

\* C15: a batch that onFileChange deferred is applied to the fragments: the
\* timer callback, the only holder of the batch, runs a pass with it and never
\* returns without one, also when other batches arrived before it fired.
C15_NoDeferredEditLost == last.waited => last.kind = "pass"

\* onFileChange is the handler that has just run.
ChangeHandled == last.kind \in {"ignored", "deferred", "dropped", "timedOut", "pass"}

\* C16: when the delay is 0, or the document has no session, onFileChange
\* changes nothing: the session's tikzPictures, preamble and lastChange are as
\* before, no timer is scheduled, and no preamble check, compile or cleanup
\* is made.
C16_DisabledIsNoOp ==
    (ChangeHandled /\ (delay = 0 \/ ~hasCollection)) =>
        /\ tikzPictures = last.pre
        /\ preamble = last.preambleBefore
        /\ lastChange = last.lastChangeBefore
        /\ timers = <<>>
        /\ ~last.checked
        /\ ~last.started
        /\ last.compiled = <<>>
        /\ last.cleaned = <<>>
        /\ passes = <<>>

\* onFileChange has just run with a delay of 0 on a session that tracks a
\* fragment, long enough after the last activity for a pass to run otherwise.
C16_Witness ==
    /\ ChangeHandled
    /\ delay = 0
    /\ hasCollection
    /\ tikzPictures # <<>>
    /\ last.changes # <<>>
    /\ clock - lastChange >= 2

(***************************************************************************)
(* Removals within one pass.  cleaned lists, in order, the fragment each   *)
(* removal of lines 107-108 and 128-129 was aimed at.                      *)
(***************************************************************************)
noDuplicates(seq) ==
    \A i \in 1..Len(seq) : \A j \in 1..Len(seq) : i # j => seq[i] # seq[j]

\* C17: in a processed pass a fragment leaves tikzPictures only by a removal
\* aimed at that fragment (its viewer was inactive, or a change of the batch
\* took the removal branch for it), and no fragment is removed and cleaned up
\* more than once.
C17_RemovalHitsTarget ==
    ProcessedPass =>
        /\ \A f \in TrackedBefore : ~StillTracked(f) => CleanedUp(f)
        /\ noDuplicates(last.cleaned)

\* C18: every fragment a processed pass hands to updateTikzPicture from its
\* recompile set is still tracked at the end of the pass: a fragment removed
\* by one change of the batch is not queued by another.
C18_RemovedNotRecompiled ==
    ProcessedPass =>
        \A f \in TrackedBefore : RecompiledByPass(f) => StillTracked(f)

\* C19: any two distinct tracked fragments have different tempFile values,
\* also when both were created at the same clock reading, and a pass leaves
\* the tempFile of every fragment it keeps as it was.
C19_TempFileUnique ==
    /\ \A i \in 1..Len(tikzPictures) : \A j \in 1..Len(tikzPictures) :
          i # j => tikzPictures[i].tempFile # tikzPictures[j].tempFile
    /\ ProcessedPass =>
          \A f \in TrackedBefore : last.objs[f.id].tempFile = f.tempFile

\* C20: when the precompile started by a preamble check fails, the check
\* throws, compiles no fragment, and the session's preamble is not the
\* candidate whose precompile failed, so that the next check of the same text
\* finds a difference.
C20_FailedPrecompileNotCached ==
    last.kind = "precompileFailed" =>
        /\ last.thrown
        /\ last.compiled = <<>>
        /\ preamble # last.generated

=============================================================================
